---- MODULE Spec2Model ----
(***************************************************************************)
(* Model of scan/crypto/tls/cfsslscan_handshake.go: the abbreviated TLS    *)
(* handshake Conn.SayHello with its helpers Conn.sayHello and              *)
(* Conn.exchangeKeys.  One probe runs over one connection; the peer and    *)
(* the transport are the environment, which chooses the outcome of every   *)
(* writeRecord and readHandshake call.                                     *)
(***************************************************************************)
EXTENDS Integers, Sequences, FiniteSets, TLC

\* ---------------------------------------------------------------- bounds
MaxVersions == 2     \* longest list returned by config.supportedVersions()
MaxCerts == 2        \* longest certificate list in a Certificate message
MaxKeyLen == 4       \* longest ServerKeyExchange parameter block

\* ------------------------------------------------------------ constants
VersionTLS10 == 769
VersionTLS12 == 771
VersionTLS13 == 772

typeServerHello == 2
typeCertificate == 11
typeServerKeyExchange == 12
typeServerHelloDone == 14
typeCertificateStatus == 22

compressionNone == 0
pointFormatUncompressed == 0
RandomLen == 32

\* cipher suite identifiers used as peer choices
SuiteECDHE == 49199      \* 0xc02f, an ECDHE suite
SuiteRSA == 156          \* 0x009c, a non-EC suite
SuiteUnknown == 4660     \* 0x1234, not in the capability table

\* candidate versions: one below and one above the VersionTLS12 ceiling
Versions == {VersionTLS10, VersionTLS13}
Suites == {SuiteECDHE, SuiteRSA, SuiteUnknown}
Bytes == {0, 1, 3, 23}
Certs == {"cert1", "cert2"}

\* all sequences over S of length at most n
SeqsUpTo(S, n) == UNION {[1..k -> S] : k \in 0..n}

\* ------------------------------------------------------- capability table
\* CFCipherSuites: cipher suite ID -> facts about the suite
CFCipherSuites ==
    (SuiteECDHE :> [EllipticCurve |-> TRUE]) @@
    (SuiteRSA :> [EllipticCurve |-> FALSE])

\* Go map index: a missing key yields the zero value
CFLookupUnknownIsEC(id) ==
    IF id \in DOMAIN CFCipherSuites THEN CFCipherSuites[id]
    ELSE [EllipticCurve |-> TRUE]
CFLookup(id) ==
    IF id \in DOMAIN CFCipherSuites THEN CFCipherSuites[id]
    ELSE [EllipticCurve |-> FALSE]

\* --------------------------------------------------------------- messages
\* A handshake message as returned by readHandshake: its Go dynamic type,
\* the first byte of its raw encoding, and the fields SayHello looks at.
Msg(t, r0, v, cs, ocsp, cl, k) ==
    [type |-> t, raw0 |-> r0, vers |-> v, cipherSuite |-> cs,
     ocspStapling |-> ocsp, certificates |-> cl, key |-> k]

NilMsg == Msg("nil", 0, 0, 0, FALSE, <<>>, <<>>)
StringMsg == Msg("string", 0, 0, 0, FALSE, <<>>, <<>>)

ServerHelloMsgs ==
    {Msg("serverHelloMsg", typeServerHello, v, cs, o, <<>>, <<>>) :
        v \in {VersionTLS10, VersionTLS12}, cs \in Suites, o \in BOOLEAN}
CertificateMsgs ==
    {Msg("certificateMsg", typeCertificate, 0, 0, FALSE, cl, <<>>) :
        cl \in SeqsUpTo(Certs, MaxCerts)}
CertificateStatusMsgs ==
    {Msg("certificateStatusMsg", typeCertificateStatus, 0, 0, FALSE, <<>>, <<>>)}
\* the parameter blocks a peer sends: SayHello looks at the length and at
\* the first three bytes, so the bytes past the fourth are sent as 0
KeyBlocks ==
    {k \in SeqsUpTo(Bytes, MaxKeyLen) : \A i \in 5..Len(k) : k[i] = 0}

ServerKeyExchangeMsgs ==
    {Msg("serverKeyExchangeMsg", typeServerKeyExchange, 0, 0, FALSE, <<>>, k) :
        k \in KeyBlocks}
OtherMsgs ==
    {Msg("serverHelloDoneMsg", typeServerHelloDone, 0, 0, FALSE, <<>>, <<>>)}

Messages ==
    ServerHelloMsgs \cup CertificateMsgs \cup CertificateStatusMsgs
        \cup ServerKeyExchangeMsgs \cup OtherMsgs

\* ----------------------------------------------------------------- errors
NoErr == [kind |-> "nil", wanted |-> "", got |-> NilMsg]

\* unexpectedMessageError(wanted, got)
unexpectedMessageError(wanted, got) ==
    [kind |-> "UnexpectedMessageError", wanted |-> wanted, got |-> got]

\* an error reported by the record layer
TransportFaults == {"timeout", "closed"}
TransportError(f) == [kind |-> "TransportError", wanted |-> f, got |-> NilMsg]

\* the possible outcomes of one c.readHandshake() call
readHandshake ==
    {[msg |-> m, err |-> NoErr] : m \in Messages}
        \cup {[msg |-> NilMsg, err |-> TransportError(f)] : f \in TransportFaults}

\* the possible outcomes of one c.writeRecord() call
writeRecord == {NoErr, TransportError("closed")}

VARIABLES
    pc,                 \* position of the probe
    supportedVersions,  \* c.config.supportedVersions()
    written,            \* records handed to writeRecord, with the outcome
    reads,              \* readHandshake calls made, with the step and message
    serverHello,        \* the serverHelloMsg returned by sayHello
    msg,                \* SayHello's local msg
    skx,                \* SayHello's local skx
    cipherID, curveType, curveID, version, certs, err,  \* named results
    probe,              \* which call of SayHello this is: 1 or 2
    first               \* what the first call did, once a second one runs

vars == <<probe, first, pc, supportedVersions, written, reads, serverHello, msg, skx,
          cipherID, curveType, curveID, version, certs, err>>

\* no earlier call
NoProbe ==
    [pc |-> "none", written |-> <<>>, reads |-> <<>>,
     out |-> <<0, 0, 0, 0, <<>>, NoErr>>]

\* the next readHandshake outcome: a peer probed a second time sends again,
\* message by message, what it sent the first time
Peer ==
    IF probe = 2 /\ Len(reads) < Len(first.reads)
    THEN {[msg |-> first.reads[Len(reads) + 1].msg,
           err |-> first.reads[Len(reads) + 1].err]}
    ELSE readHandshake

Init ==
    /\ probe = 1
    /\ first = NoProbe
    /\ pc = "START"
    /\ supportedVersions \in SeqsUpTo(Versions, MaxVersions)
    /\ written = <<>>
    /\ reads = <<>>
    /\ serverHello = NilMsg
    /\ msg = NilMsg
    /\ skx = NilMsg
    /\ cipherID = 0
    /\ curveType = 0
    /\ curveID = 0
    /\ version = 0
    /\ certs = <<>>
    /\ err = NoErr


\* ---------------------------------------------------------------- helpers
\* the version placed at the beginning of the ClientHello
clientHelloVersionUncapped(vs) == vs[1]
clientHelloVersion(vs) ==
    IF vs[1] > VersionTLS12 THEN VersionTLS12 ELSE vs[1]

\* the clientHelloMsg built by SayHello
clientHelloMsg(vs) ==
    [vers |-> clientHelloVersion(vs),
     compressionMethods |-> <<compressionNone>>,
     random |-> [i \in 1..RandomLen |-> 0],
     ocspStapling |-> TRUE,
     supportedPoints |-> <<pointFormatUncompressed>>,
     secureRenegotiationSupported |-> TRUE]

\* msg.(*serverHelloMsg) succeeds
isServerHelloAny(m) == TRUE
isServerHelloIfWritten(m) ==
    m.type = "serverHelloMsg" /\ written[1].err = NoErr
isServerHello(m) == m.type = "serverHelloMsg"

\* the Certificate message is accepted
certificateOKTypeOnly(m) == m.type = "certificateMsg"
certificateOK(m) ==
    m.type = "certificateMsg" /\ Len(m.certificates) # 0

\* msg.(*certificateStatusMsg) succeeds
isCertificateStatusAny(m) == TRUE
isCertificateStatus(m) == m.type = "certificateStatusMsg"

\* msg.(*serverKeyExchangeMsg) succeeds
isServerKeyExchange(m) == m.type = "serverKeyExchangeMsg"

\* the CertificateStatus read is made
wantsCertificateStatusNever(sh) == FALSE
wantsCertificateStatusAlways(sh) == TRUE
wantsCertificateStatus(sh) == sh.ocspStapling

\* the ServerKeyExchange read is made
wantsServerKeyExchangeAlways(sh) == TRUE
wantsServerKeyExchange(sh) == CFLookup(sh.cipherSuite).EllipticCurve

\* CurveID(skx.key[1])<<8 | CurveID(skx.key[2]), a uint16
namedCurveLittleEndian(key) == (key[3] * 256 + key[2]) % 65536
namedCurve(key) == (key[2] * 256 + key[3]) % 65536

\* len(skx.key) < 4
keyTooShortBelow3(key) == Len(key) < 3
keyTooShort(key) == Len(key) < 4

\* curveType == 3, a named curve
isNamedCurveAnyTag(ct) == ct # 0
isNamedCurve(ct) == ct = 3

\* cipherID, version = serverHello.cipherSuite, serverHello.vers
negotiatedSwapped(sh) == [cipherID |-> sh.vers, version |-> sh.cipherSuite]
negotiated(sh) == [cipherID |-> sh.cipherSuite, version |-> sh.vers]

\* where SayHello goes once the OCSP step is over
afterCertificateStatusReturn(sh) == "DONE"
afterCertificateStatus(sh) ==
    IF wantsServerKeyExchange(sh) THEN "AwaitServerKeyExchange" ELSE "Extract"

\* where SayHello goes once the Certificate step is over
afterCertificate(sh) ==
    IF wantsCertificateStatus(sh) THEN "AwaitCertificateStatus"
    ELSE afterCertificateStatus(sh)

\* ---------------------------------------------------------------- actions
\* SayHello up to the check of the supported versions
Start ==
    /\ pc = "START"
    /\ IF Len(supportedVersions) = 0
       THEN /\ err' = unexpectedMessageError("[]uint16", StringMsg)
            /\ pc' = "FAILED"
       ELSE /\ err' = err
            /\ pc' = "SendClientHello"
    /\ UNCHANGED <<probe, first, supportedVersions, written, reads, serverHello, msg, skx,
                   cipherID, curveType, curveID, version, certs>>

\* SayHello builds the hello; sayHello hands it to writeRecord and drops
\* writeRecord's result
SendClientHello ==
    /\ pc = "SendClientHello"
    /\ \E w \in writeRecord :
          written' = Append(written,
                            [hello |-> clientHelloMsg(supportedVersions),
                             err |-> w])
    /\ pc' = "AwaitServerHello"
    /\ UNCHANGED <<probe, first, supportedVersions, reads, serverHello, msg, skx,
                   cipherID, curveType, curveID, version, certs, err>>

\* sayHello reads the answer; SayHello returns on its error
AwaitServerHello ==
    /\ pc = "AwaitServerHello"
    /\ \E r \in Peer :
          /\ reads' = Append(reads, [step |-> pc, msg |-> r.msg, err |-> r.err])
          /\ IF r.err # NoErr
             THEN /\ err' = r.err
                  /\ serverHello' = NilMsg
                  /\ pc' = "FAILED"
             ELSE IF ~isServerHello(r.msg)
             THEN /\ err' = unexpectedMessageError("serverHelloMsg", r.msg)
                  /\ serverHello' = NilMsg
                  /\ pc' = "FAILED"
             ELSE /\ err' = NoErr
                  /\ serverHello' = r.msg
                  /\ pc' = "AwaitCertificate"
    /\ UNCHANGED <<probe, first, supportedVersions, written, msg, skx,
                   cipherID, curveType, curveID, version, certs>>

\* SayHello reads the certificate message
AwaitCertificate ==
    /\ pc = "AwaitCertificate"
    /\ \E r \in Peer :
          /\ reads' = Append(reads, [step |-> pc, msg |-> r.msg, err |-> r.err])
          /\ msg' = r.msg
          /\ IF r.err # NoErr
             THEN /\ err' = r.err
                  /\ certs' = certs
                  /\ pc' = "FAILED"
             ELSE IF ~certificateOK(r.msg)
             THEN /\ err' = unexpectedMessageError("certificateMsg", r.msg)
                  /\ certs' = certs
                  /\ pc' = "FAILED"
             ELSE /\ err' = NoErr
                  /\ certs' = r.msg.certificates
                  /\ pc' = afterCertificate(serverHello)
    /\ UNCHANGED <<probe, first, supportedVersions, written, serverHello, skx,
                   cipherID, curveType, curveID, version>>

\* SayHello reads the OCSP stapling message
AwaitCertificateStatus ==
    /\ pc = "AwaitCertificateStatus"
    /\ \E r \in Peer :
          /\ reads' = Append(reads, [step |-> pc, msg |-> r.msg, err |-> r.err])
          /\ msg' = r.msg
          /\ IF r.err # NoErr
             THEN /\ err' = r.err
                  /\ pc' = "FAILED"
             ELSE IF ~isCertificateStatus(r.msg)
             THEN /\ err' = unexpectedMessageError("certificateStatusMsg", r.msg)
                  /\ pc' = "FAILED"
             ELSE /\ err' = NoErr
                  /\ pc' = afterCertificateStatus(serverHello)
    /\ UNCHANGED <<probe, first, supportedVersions, written, serverHello, skx,
                   cipherID, curveType, curveID, version, certs>>

\* exchangeKeys reads the key exchange message; SayHello checks it.  The
\* errors SayHello builds itself name SayHello's msg, the message of the
\* previous step.
AwaitServerKeyExchange ==
    /\ pc = "AwaitServerKeyExchange"
    /\ \E r \in Peer :
          /\ reads' = Append(reads, [step |-> pc, msg |-> r.msg, err |-> r.err])
          /\ IF r.err # NoErr
             THEN /\ err' = r.err
                  /\ skx' = NilMsg
                  /\ pc' = "FAILED"
             ELSE IF ~isServerKeyExchange(r.msg)
             THEN /\ err' = unexpectedMessageError("serverKeyExchangeMsg", r.msg)
                  /\ skx' = NilMsg
                  /\ pc' = "FAILED"
             ELSE IF r.msg.raw0 # typeServerKeyExchange
             THEN /\ err' = unexpectedMessageError("serverKeyExchangeMsg", msg)
                  /\ skx' = r.msg
                  /\ pc' = "FAILED"
             ELSE IF keyTooShort(r.msg.key)
             THEN /\ err' = unexpectedMessageError("serverKeyExchangeMsg", msg)
                  /\ skx' = r.msg
                  /\ pc' = "FAILED"
             ELSE /\ err' = NoErr
                  /\ skx' = r.msg
                  /\ pc' = "Extract"
    /\ UNCHANGED <<probe, first, supportedVersions, written, serverHello, msg,
                   cipherID, curveType, curveID, version, certs>>

\* SayHello fills in the curve and the negotiated parameters and returns
Extract ==
    /\ pc = "Extract"
    /\ IF wantsServerKeyExchange(serverHello)
       THEN /\ curveType' = skx.key[1]
            /\ curveID' = IF isNamedCurve(skx.key[1]) THEN namedCurve(skx.key)
                           ELSE curveID
       ELSE UNCHANGED <<curveType, curveID>>
    /\ cipherID' = negotiated(serverHello).cipherID
    /\ version' = negotiated(serverHello).version
    /\ pc' = "DONE"
    /\ UNCHANGED <<probe, first, supportedVersions, written, reads, serverHello, msg, skx,
                   certs, err>>

Next ==
    \/ Start
    \/ SendClientHello
    \/ AwaitServerHello
    \/ AwaitCertificate
    \/ AwaitCertificateStatus
    \/ AwaitServerKeyExchange
    \/ Extract

Spec == Init /\ [][Next]_vars

\* a configuration that supports the versions from TLS 1.3 down
DefaultVersions == <<VersionTLS13, VersionTLS10>>

\* the start of a probe configured with no version or with the default ones
InitShort ==
    /\ Init
    /\ supportedVersions \in {<<>>, DefaultVersions}

\* SayHello runs on the caller's thread: a step that can be taken is taken,
\* every blocking read returning a message or an error
FairSpec == InitShort /\ [][Next]_vars /\ WF_vars(Next)

\* SayHello is called a second time, on a fresh connection to the same
\* peer with the same configuration: locals and named results start at
\* their zero values again
NewProbe ==
    /\ probe = 1
    /\ pc \in {"DONE", "FAILED"}
    /\ first' = [pc |-> pc, written |-> written, reads |-> reads,
                 out |-> <<cipherID, curveType, curveID, version, certs, err>>]
    /\ probe' = 2
    /\ pc' = "START"
    /\ written' = <<>>
    /\ reads' = <<>>
    /\ serverHello' = NilMsg
    /\ msg' = NilMsg
    /\ skx' = NilMsg
    /\ cipherID' = 0
    /\ curveType' = 0
    /\ curveID' = 0
    /\ version' = 0
    /\ certs' = <<>>
    /\ err' = NoErr
    /\ UNCHANGED supportedVersions

NextTwo ==
    \/ Next
    \/ NewProbe

\* two probes in a row against an unchanged peer
SpecTwo == InitShort /\ [][NextTwo]_vars

\* ------------------------------------------------------------- properties
UnexpectedMessage == "UnexpectedMessageError"
Returned == pc \in {"DONE", "FAILED"}
ZeroResult ==
    /\ cipherID = 0
    /\ version = 0
    /\ curveType = 0
    /\ curveID = 0
    /\ certs = <<>>
ReadSteps == {reads[i].step : i \in 1..Len(reads)}
Min(a, b) == IF a < b THEN a ELSE b
\* the facts of the received ServerHello, taken from the read log
HelloRead == Len(reads) >= 1 /\ reads[1].msg.type = "serverHelloMsg"
OcspFlag == reads[1].msg.ocspStapling
SuiteIsEC ==
    /\ reads[1].msg.cipherSuite \in DOMAIN CFCipherSuites
    /\ CFCipherSuites[reads[1].msg.cipherSuite].EllipticCurve

\* C1: whenever SayHello returns a non-nil error, every result field is
\* zero: cipherID, version, curveType and curveID are 0 and certs is empty,
\* also when the error arises after a valid Certificate message was read.
C1_ErrorMeansZeroResult ==
    pc = "FAILED" => ZeroResult

\* C2: if ServerHello has the OCSP stapling flag set and the message read
\* right after Certificate is not a CertificateStatus, the probe has failed
\* with an unexpected-message error and has made no further read; the
\* CertificateStatus read, when made, is the third read, right after the
\* Certificate read and before any ServerKeyExchange read.
C2_OcspOrdering ==
    /\ (/\ HelloRead /\ OcspFlag
        /\ Len(reads) >= 3
        /\ reads[3].err = NoErr
        /\ reads[3].msg.type # "certificateStatusMsg")
       => (/\ pc = "FAILED"
           /\ err.kind = UnexpectedMessage
           /\ Len(reads) = 3
           /\ "AwaitServerKeyExchange" \notin ReadSteps)
    /\ \A i \in 1..Len(reads) :
          reads[i].step = "AwaitCertificateStatus"
             => /\ i = 3
                /\ reads[2].step = "AwaitCertificate"
                /\ \A j \in 1..Len(reads) :
                      reads[j].step = "AwaitServerKeyExchange" => j > i

C2_Witness ==
    /\ pc = "FAILED"
    /\ HelloRead /\ OcspFlag /\ SuiteIsEC
    /\ Len(reads) = 3
    /\ reads[3].msg.type = "serverKeyExchangeMsg"

\* C3: if the suite negotiated in ServerHello is not elliptic-curve in the
\* capability table, curveType and curveID are zero and no ServerKeyExchange
\* read is made: the reads stop after Certificate or CertificateStatus.
C3_NoCurveForNonECSuite ==
    (HelloRead /\ ~SuiteIsEC)
       => /\ curveType = 0
          /\ curveID = 0
          /\ "AwaitServerKeyExchange" \notin ReadSteps
          /\ Len(reads) <= 2 + (IF OcspFlag THEN 1 ELSE 0)

C3_Witness ==
    /\ pc = "DONE"
    /\ reads[1].msg.cipherSuite = SuiteRSA
    /\ OcspFlag
    /\ Len(reads) = 3

\* C4: if the message read after ServerHello is not a Certificate message,
\* or is one with zero entries, the probe has failed with an
\* unexpected-message error and a zero result and has made no further read.
C4_BadCertificateFails ==
    (/\ Len(reads) >= 2
     /\ reads[2].err = NoErr
     /\ \/ reads[2].msg.type # "certificateMsg"
        \/ Len(reads[2].msg.certificates) = 0)
       => /\ pc = "FAILED"
          /\ err.kind = UnexpectedMessage
          /\ ZeroResult
          /\ Len(reads) = 2

C4_Witness ==
    /\ pc = "FAILED"
    /\ Len(reads) = 2
    /\ reads[2].msg.type = "certificateMsg"
    /\ reads[2].msg.certificates = <<>>

\* C5: the version field of every ClientHello written is the smaller of the
\* first supported version and VersionTLS12, so it never exceeds
\* VersionTLS12.
C5_HelloVersionCapped ==
    \A i \in 1..Len(written) :
       /\ written[i].hello.vers = Min(supportedVersions[1], VersionTLS12)
       /\ written[i].hello.vers <= VersionTLS12

C5_Witness ==
    /\ Len(written) = 1
    /\ \A j \in 1..Len(supportedVersions) : supportedVersions[j] > VersionTLS12
    /\ written[1].hello.vers = VersionTLS12

\* C6: with no supported version the probe fails with a configuration
\* error, a kind of its own, before any record is written or message read.
C6_NoVersionsIsConfigurationError ==
    (Len(supportedVersions) = 0 /\ pc # "START")
       => /\ pc = "FAILED"
          /\ err.kind = "ConfigurationError"
          /\ written = <<>>
          /\ reads = <<>>

\* C7: if the ClientHello write or any handshake read failed, the probe
\* returns a transport error; a failed write is never followed by success.
C7_IOFailureIsTransportError ==
    (/\ Returned
     /\ \/ \E i \in 1..Len(written) : written[i].err # NoErr
        \/ \E i \in 1..Len(reads) : reads[i].err # NoErr)
       => /\ pc = "FAILED"
          /\ err.kind = "TransportError"

\* C8: a probe that returns without error has made one writeRecord call
\* (the ClientHello) and has read 2, plus 1 if the OCSP flag is set, plus 1
\* if the suite is elliptic-curve, messages: ServerHello, Certificate,
\* then CertificateStatus and ServerKeyExchange as far as they apply.
C8_SuccessfulProbeIO ==
    pc = "DONE"
       => LET o == IF OcspFlag THEN 1 ELSE 0
              e == IF SuiteIsEC THEN 1 ELSE 0
          IN  /\ Len(written) = 1
              /\ Len(reads) = 2 + o + e
              /\ \A i \in 1..Len(reads) : reads[i].err = NoErr
              /\ reads[1].msg.type = "serverHelloMsg"
              /\ reads[2].msg.type = "certificateMsg"
              /\ o = 1 => reads[3].msg.type = "certificateStatusMsg"
              /\ e = 1 => reads[3 + o].msg.type = "serverKeyExchangeMsg"

C8_Witness ==
    /\ pc = "DONE"
    /\ Len(written) = 1
    /\ Len(reads) = 4

\* C9: if the first message read is not a ServerHello, the probe has failed
\* with an unexpected-message error naming that message as the one
\* received, and no further read was made.
C9_NotServerHelloFails ==
    (/\ Len(reads) >= 1
     /\ reads[1].err = NoErr
     /\ reads[1].msg.type # "serverHelloMsg")
       => /\ pc = "FAILED"
          /\ err.kind = UnexpectedMessage
          /\ err.got = reads[1].msg
          /\ Len(reads) = 1

C9_Witness ==
    /\ pc = "FAILED"
    /\ Len(reads) = 1
    /\ reads[1].msg.type = "certificateMsg"
    /\ err.got = reads[1].msg

\* C10: after a successful probe of an elliptic-curve suite, whose
\* ServerKeyExchange parameters have at least 4 bytes, curveType is
\* parameter byte 0, and curveID is 256 * byte 1 + byte 2 when byte 0 is 3
\* and 0 for any other byte 0.
C10_CurveDecoding ==
    (/\ pc = "DONE"
     /\ SuiteIsEC
     /\ reads[Len(reads)].msg.type = "serverKeyExchangeMsg"
     /\ Len(reads[Len(reads)].msg.key) >= 4)
       => LET key == reads[Len(reads)].msg.key
          IN  /\ curveType = key[1]
              /\ curveID = IF key[1] = 3 THEN 256 * key[2] + key[3] ELSE 0

C10_Witness ==
    /\ pc = "DONE"
    /\ SuiteIsEC
    /\ reads[Len(reads)].msg.key = <<3, 0, 23, 1>>
    /\ curveType = 3
    /\ curveID = 23

\* C11: on every successful probe cipherID and version are the cipher
\* suite and version of the ServerHello read, and certs is the entry list
\* of the Certificate message read, in the same order.
C11_ResultCopiesMessages ==
    pc = "DONE"
       => /\ cipherID = reads[1].msg.cipherSuite
          /\ version = reads[1].msg.vers
          /\ certs = reads[2].msg.certificates

\* a TLS 1.2 peer with an ECDHE suite, named curve 23, one certificate and
\* no OCSP stapling
C11_Witness ==
    /\ pc = "DONE"
    /\ Len(reads) = 3
    /\ reads[1].msg.vers = VersionTLS12
    /\ reads[1].msg.cipherSuite = SuiteECDHE
    /\ ~OcspFlag
    /\ reads[2].msg.certificates = <<"cert1">>
    /\ reads[3].msg.key[1] = 3 /\ reads[3].msg.key[2] = 0 /\ reads[3].msg.key[3] = 23
    /\ cipherID = SuiteECDHE
    /\ version = VersionTLS12
    /\ curveType = 3
    /\ curveID = 23
    /\ certs = <<"cert1">>

Accepted(i) ==
    /\ reads[i].err = NoErr
    /\ CASE reads[i].step = "AwaitServerHello" ->
               reads[i].msg.type = "serverHelloMsg"
         [] reads[i].step = "AwaitCertificate" ->
               /\ reads[i].msg.type = "certificateMsg"
               /\ Len(reads[i].msg.certificates) >= 1
         [] reads[i].step = "AwaitCertificateStatus" ->
               reads[i].msg.type = "certificateStatusMsg"
         [] reads[i].step = "AwaitServerKeyExchange" ->
               /\ reads[i].msg.type = "serverKeyExchangeMsg"
               /\ Len(reads[i].msg.key) >= 4
         [] OTHER -> FALSE

\* C13: when the negotiated suite is elliptic-curve, a successful probe has
\* read, last, a ServerKeyExchange with at least 4 parameter bytes; a
\* message of another type, or a ServerKeyExchange with 0 to 3 parameter
\* bytes, read at that step makes the probe fail with an unexpected-message
\* error and leaves curveType and curveID zero.
C13_KeyExchangeRequired ==
    /\ (pc = "DONE" /\ SuiteIsEC)
          => /\ reads[Len(reads)].msg.type = "serverKeyExchangeMsg"
             /\ Len(reads[Len(reads)].msg.key) >= 4
    /\ \A i \in 1..Len(reads) :
          (/\ reads[i].step = "AwaitServerKeyExchange"
           /\ reads[i].err = NoErr
           /\ \/ reads[i].msg.type # "serverKeyExchangeMsg"
              \/ Len(reads[i].msg.key) < 4)
             => /\ pc = "FAILED"
                /\ err.kind = UnexpectedMessage
                /\ curveType = 0
                /\ curveID = 0

C13_Witness ==
    /\ pc = "FAILED"
    /\ HelloRead
    /\ SuiteIsEC
    /\ reads[Len(reads)].step = "AwaitServerKeyExchange"
    /\ reads[Len(reads)].msg.type = "serverKeyExchangeMsg"
    /\ Len(reads[Len(reads)].msg.key) = 3
    /\ err.kind = UnexpectedMessage

\* C14: every unexpected-message error raised at a read names, as the
\* message received, the message read at the step that failed (the last
\* one read), also when a ServerKeyExchange is rejected for its length.
C14_ErrorNamesFailingMessage ==
    (pc = "FAILED" /\ err.kind = UnexpectedMessage /\ reads # <<>>)
       => err.got = reads[Len(reads)].msg

C17_RandomNotConstant ==
    \A i \in 1..Len(written) :
       written[i].hello.random # [j \in 1..RandomLen |-> 0]

\* C18: if ServerHello names a suite that the capability table does not
\* hold, no ServerKeyExchange is read: once Certificate (and
\* CertificateStatus when flagged) is accepted the probe goes on to succeed
\* without error, and returns that suite with the curve fields zero.
C18_UnknownSuiteIsNotEC ==
    (HelloRead /\ reads[1].msg.cipherSuite \notin DOMAIN CFCipherSuites)
       => LET n == 2 + (IF OcspFlag THEN 1 ELSE 0)
          IN  /\ "AwaitServerKeyExchange" \notin ReadSteps
              /\ Len(reads) <= n
              /\ (Len(reads) = n /\ Accepted(n))
                    => /\ pc \in {"Extract", "DONE"}
                       /\ err = NoErr
              /\ pc = "DONE"
                    => /\ cipherID = reads[1].msg.cipherSuite
                       /\ curveType = 0
                       /\ curveID = 0

C18_Witness ==
    /\ pc = "DONE"
    /\ cipherID = SuiteUnknown
    /\ OcspFlag
    /\ Len(reads) = 3
    /\ err = NoErr

\* C19: a result returned without error has at least one certificate, and
\* curveID is non-zero only with curveType 3 and an elliptic-curve suite.
C19_ResultWellFormed ==
    /\ pc = "DONE" => Len(certs) >= 1
    /\ curveID # 0 => (curveType = 3 /\ HelloRead /\ SuiteIsEC)

C19_Witness ==
    /\ pc = "DONE"
    /\ curveID # 0
    /\ curveType = 3
    /\ Len(certs) = 2

\* the transitions of the probe's state machine
Forward ==
    {<<"START", "SendClientHello">>,
     <<"SendClientHello", "AwaitServerHello">>,
     <<"AwaitServerHello", "AwaitCertificate">>,
     <<"AwaitCertificate", "AwaitCertificateStatus">>,
     <<"AwaitCertificate", "AwaitServerKeyExchange">>,
     <<"AwaitCertificate", "Extract">>,
     <<"AwaitCertificateStatus", "AwaitServerKeyExchange">>,
     <<"AwaitCertificateStatus", "Extract">>,
     <<"AwaitServerKeyExchange", "Extract">>,
     <<"Extract", "DONE">>}
        \cup {<<s, "FAILED">> :
                 s \in {"START", "SendClientHello", "AwaitServerHello",
                        "AwaitCertificate", "AwaitCertificateStatus",
                        "AwaitServerKeyExchange", "Extract"}}

\* a step that follows one of these transitions
StepsForward == <<pc, pc'>> \in Forward

\* C15: every step of the probe moves its control state along START,
\* SendClientHello, AwaitServerHello, AwaitCertificate,
\* [AwaitCertificateStatus], [AwaitServerKeyExchange], Extract, DONE, or
\* from a non-terminal state to FAILED; these transitions only go forward,
\* so no state is revisited and DONE and FAILED are never left; and, every
\* read returning, the probe eventually is in DONE or FAILED.
C15_ForwardAndTerminates ==
    /\ [][StepsForward]_vars
    /\ <>(pc \in {"DONE", "FAILED"})

C15_Witness ==
    /\ pc = "Extract"
    /\ Len(reads) = 4
    /\ reads[3].step = "AwaitCertificateStatus"
    /\ reads[4].step = "AwaitServerKeyExchange"

====
